---- MODULE Spec2Model ----
(***************************************************************************)
(* libops/cap: the scrape-parse-filter-register pipeline of                *)
(* scraper.Scraper (ProcessBody, GetLabelsByRef) and the scheduling loop   *)
(* that drives it (Run, scrapeAndExport).                                  *)
(*                                                                         *)
(* Strings are Go strings; where the code looks inside a string            *)
(* (strings.HasPrefix, labels.Labels.String, Regexp.MatchString,           *)
(* labels.Labels.Hash) the model works on the string's characters, given   *)
(* by Chars.  Sample values are float64 in the code; the model counts     *)
(* them in units of 0.0000001, so 1 is the smallest positive value used.   *)
(* Timestamps are counted in seconds instead of milliseconds.              *)
(***************************************************************************)
EXTENDS Integers, Sequences, FiniteSets, TLC

\* ------------------------------------------------------------------ bounds

\* Longest payload, in parser entries.
MaxEntries == 3

\* Number of ticks the scheduler's select may take.
MaxCycles == 2

\* Number of times the wall clock moves on between two reads of it.
MaxClock == 1

\* ----------------------------------------------------------------- strings

\* The characters of the strings of the model, in byte order.
Alphabet ==
  << " ", "\"", ",", "-", "/", "1", "=", "_", "a", "b", "c", "d", "e", "h",
     "i", "k", "l", "m", "n", "o", "p", "r", "s", "t", "u", "y", "{", "|", "}" >>

Code(c) == CHOOSE i \in 1..Len(Alphabet) : Alphabet[i] = c

Chars(s) ==
  CASE s = "" -> << >>
    [] s = "cap" -> <<"c", "a", "p">>
    [] s = "libops-" -> <<"l", "i", "b", "o", "p", "s", "-">>
    [] s = "libops-cache" -> <<"l", "i", "b", "o", "p", "s", "-", "c", "a", "c", "h", "e">>
    [] s = "my-app" -> <<"m", "y", "-", "a", "p", "p">>
    [] s = "other-app" -> <<"o", "t", "h", "e", "r", "-", "a", "p", "p">>
    [] s = "/c1" -> <<"/", "c", "1">>
    [] s = "container_tasks_state" ->
         <<"c", "o", "n", "t", "a", "i", "n", "e", "r", "_", "t", "a", "s", "k", "s",
           "_", "s", "t", "a", "t", "e">>
    [] s = "container_cpu" ->
         <<"c", "o", "n", "t", "a", "i", "n", "e", "r", "_", "c", "p", "u">>
    [] s = "__name__" -> <<"_", "_", "n", "a", "m", "e", "_", "_">>
    [] s = "id" -> <<"i", "d">>
    [] s = "name" -> <<"n", "a", "m", "e">>

\* strings.HasPrefix(s, prefix), on characters.
HasPrefix(s, prefix) ==
  /\ Len(prefix) <= Len(s)
  /\ \A i \in 1..Len(prefix) : s[i] = prefix[i]

\* Whether sub occurs in s (the unanchored search of a literal).
Contains(s, sub) ==
  \E k \in 0..(Len(s) - Len(sub)) :
    \A i \in 1..Len(sub) : s[k + i] = sub[i]

\* Byte-wise order of two strings, as Go's < on strings.
StrLess(a, b) ==
  LET ca == Chars(a)
      cb == Chars(b)
  IN \E k \in 1..(Len(cb)) :
       /\ \A i \in 1..(k - 1) : i <= Len(ca) /\ ca[i] = cb[i]
       /\ \/ k = Len(ca) + 1
          \/ k <= Len(ca) /\ Code(ca[k]) < Code(cb[k])

\* ------------------------------------------------------------------ labels

Label(n, v) == [name |-> n, value |-> v]

\* labels.New(): the empty label set (also what a map miss returns).
EmptyLabels == << >>

RECURSIVE SortLabels(_)
\* Insertion sort by label name, as the parser's sort of the label set.
SortLabels(ls) ==
  IF Len(ls) <= 1 THEN ls
  ELSE LET rest == SortLabels(Tail(ls))
           x == Head(ls)
           n == Cardinality({i \in 1..Len(rest) : StrLess(rest[i].name, x.name)})
       IN SubSeq(rest, 1, n) \o <<x>> \o SubSeq(rest, n + 1, Len(rest))

\* Labels.Get(name): the value of the label, "" when the set has none.
Get(lset, n) ==
  IF \E i \in 1..Len(lset) : lset[i].name = n
  THEN lset[CHOOSE i \in 1..Len(lset) : lset[i].name = n].value
  ELSE ""

RECURSIVE Render(_, _)
Render(lset, i) ==
  IF i > Len(lset) THEN << >>
  ELSE (IF i > 1 THEN <<",", " ">> ELSE << >>)
       \o Chars(lset[i].name) \o <<"=", "\"">> \o Chars(lset[i].value) \o <<"\"">>
       \o Render(lset, i + 1)

\* Labels.String(): {name1="value1", name2="value2"} in label order.
StringOf(lset) == <<"{">> \o Render(lset, 1) \o <<"}">>

RECURSIVE HashBytes(_, _)
HashBytes(h, bytes) ==
  IF bytes = << >> THEN h
  ELSE HashBytes((h * 31 + Head(bytes)) % 65536, Tail(bytes))

RECURSIVE LabelBytes(_, _)
\* The bytes Labels.Hash feeds its hash: name, 0xff, value, 0xff per label.
LabelBytes(lset, i) ==
  IF i > Len(lset) THEN << >>
  ELSE [k \in 1..Len(Chars(lset[i].name)) |-> Code(Chars(lset[i].name)[k])] \o <<255>>
       \o [k \in 1..Len(Chars(lset[i].value)) |-> Code(Chars(lset[i].value)[k])] \o <<255>>
       \o LabelBytes(lset, i + 1)

\* Labels.Hash(): a fixed-width hash of the label set's content.  The
\* code's hash is 64 bits wide; the model's is 16 bits wide and, like the
\* code's on these inputs, free of collisions on the label sets of Entries.
HashOf(lset) == HashBytes(7, LabelBytes(lset, 1))

\* ------------------------------------------------------------------- regexp

\* The patterns the configuration is drawn from: the default, a literal,
\* and an alternation of two literals.
Patterns == {".*", "my-app", "(other-app|cap)"}

\* The literals one of which a match of the pattern must contain.
Alternatives(re) ==
  CASE re = ".*" -> {""}
    [] re = "my-app" -> {"my-app"}
    [] re = "(other-app|cap)" -> {"other-app", "cap"}

\* Regexp.MatchString(s): an unanchored search of s.
Search(re, s) == \E lit \in Alternatives(re) : Contains(s, Chars(lit))

\* ------------------------------------------------------------------- config

\* A value of the process environment.
EnvOf(project, zone, instance, pattern) ==
  [GCP_PROJECT |-> project, GCP_ZONE |-> zone, GCP_INSTANCE_NAME |-> instance,
   SERVICE_PATTERN |-> pattern]

\* The environments the process is started in: each identity variable
\* unset or set, the pattern unset, one of Patterns, or a lone backslash.
Envs ==
  { EnvOf(p, z, c, re) : p \in {"", "p"}, z \in {"", "z"}, c \in {"", "c"},
                         re \in {""} \cup Patterns \cup {"\\"} }

\* The environment of a process whose configuration compiled to re.
ValidEnv(re) == EnvOf("p", "z", "c", re)

\* regexp.Compile(pattern) succeeds.
Compiles(pattern) == pattern \in Patterns

\* A nil *regexp.Regexp.
NoRegex == ""

\* LoadFromEnv without the check of GCP_INSTANCE_NAME.
LoadFromEnvNoCluster(e) ==
  LET FilterPattern == IF e.SERVICE_PATTERN = "" THEN ".*" ELSE e.SERVICE_PATTERN
  IN  IF ~Compiles(FilterPattern)
      THEN [FilterPattern |-> FilterPattern, FilterRegex |-> NoRegex,
            err |-> "failed to compile regex pattern"]
      ELSE IF e.GCP_PROJECT = "" \/ e.GCP_ZONE = ""
      THEN [FilterPattern |-> FilterPattern, FilterRegex |-> FilterPattern,
            err |-> "GCP environment variables must be set"]
      ELSE [FilterPattern |-> FilterPattern, FilterRegex |-> FilterPattern, err |-> ""]

\* config.LoadFromEnv(): the pattern and the compiled pattern of the
\* Config it returns, and its error, "" for nil.
LoadFromEnv(e) ==
  LET FilterPattern == IF e.SERVICE_PATTERN = "" THEN ".*" ELSE e.SERVICE_PATTERN
  IN  IF ~Compiles(FilterPattern)
      THEN [FilterPattern |-> FilterPattern, FilterRegex |-> NoRegex,
            err |-> "failed to compile regex pattern"]
      ELSE IF e.GCP_PROJECT = "" \/ e.GCP_ZONE = "" \/ e.GCP_INSTANCE_NAME = ""
      THEN [FilterPattern |-> FilterPattern, FilterRegex |-> FilterPattern,
            err |-> "GCP environment variables must be set"]
      ELSE [FilterPattern |-> FilterPattern, FilterRegex |-> FilterPattern, err |-> ""]

\* ------------------------------------------------------------------- parser

\* One decoded entry of the exposition format.  kind is the parser's entry
\* type; "invalid" stands for a malformed line.  text is the help text of
\* a HELP entry and the type of a TYPE entry; labels are a series' label
\* pairs in payload order, the metric name apart.
EntryOf(k, m, x, ls, v, h, t) ==
  [kind |-> k, metric |-> m, text |-> x, labels |-> ls, val |-> v, hasTs |-> h, ts |-> t]

Help(m, x) == EntryOf("help", m, x, << >>, 0, FALSE, 0)

Type(m, x) == EntryOf("type", m, x, << >>, 0, FALSE, 0)

Comment == EntryOf("comment", "", "", << >>, 0, FALSE, 0)

Invalid == EntryOf("invalid", "", "", << >>, 0, FALSE, 0)

Series(m, ls, v) == EntryOf("series", m, "", ls, v, TRUE, 1678886400)

SeriesNoTs(m, ls, v) == EntryOf("series", m, "", ls, v, FALSE, 0)

MetaEntries ==
  { Help("container_cpu", "Cumulative cpu time consumed in seconds."),
    Type("container_cpu", "counter"),
    Help("container_tasks_state", "The state of the container's tasks."),
    Type("container_tasks_state", "gauge") }

SeriesEntries ==
  { Series("container_cpu", <<Label("id", "/c1"), Label("name", "my-app")>>, 50000000),
    SeriesNoTs("container_cpu", <<Label("name", "my-app"), Label("id", "/c1")>>, 1),
    Series("container_cpu", <<Label("name", "cap")>>, 1000000000),
    Series("container_cpu", <<Label("name", "libops-cache")>>, 10000000),
    Series("container_cpu", <<Label("name", "other-app")>>, 0),
    Series("container_tasks_state", <<Label("name", "my-app")>>, 10000000) }

Entries == MetaEntries \cup SeriesEntries \cup {Comment, Invalid}

\* The payloads of at most n entries.
PayloadsUpTo(n) == UNION {[1..k -> Entries] : k \in 0..n}

\* The parser stepping over a malformed line instead of ending there.
NextEntryNoStop(payload, i) ==
  IF i < Len(payload)
  THEN (IF payload[i + 1].kind = "invalid" THEN Comment ELSE payload[i + 1])
  ELSE Invalid

\* What the parser hands out next: the entry after the i entries already
\* decoded, or "invalid" at the end of the input and at a malformed line.
NextEntry(payload, i) ==
  IF i < Len(payload) THEN payload[i + 1] ELSE Invalid

\* Parser.Metric(&lset): the metric name and the label pairs, sorted.
MetricOf(e) == SortLabels(<<Label("__name__", e.metric)>> \o e.labels)

\* The label sets of the series of Entries.
LabelSets == {MetricOf(e) : e \in SeriesEntries}

\* MetricOf, StringOf, HashOf and Search tabulated on the series and the
\* label sets of Entries, where the pipeline applies them.
MetricTable == [e \in SeriesEntries |-> MetricOf(e)]

StringTable == [lset \in LabelSets |-> StringOf(lset)]

HashTable == [lset \in LabelSets |-> HashOf(lset)]

SearchTable == [re \in Patterns |-> [lset \in LabelSets |-> Search(re, StringOf(lset))]]

Metric(e) == IF e \in SeriesEntries THEN MetricTable[e] ELSE MetricOf(e)

String(lset) == IF lset \in LabelSets THEN StringTable[lset] ELSE StringOf(lset)

Hash(lset) == IF lset \in LabelSets THEN HashTable[lset] ELSE HashOf(lset)

\* FilterRegex.MatchString(lset.String())
MatchLabels(re, lset) ==
  IF lset \in LabelSets THEN SearchTable[re][lset] ELSE Search(re, String(lset))

\* ----------------------------------------------------------------- pipeline

\* The zero export.MetricMetadata.
ZeroMeta == [Metric |-> "", Help |-> "", Type |-> ""]

MapPut(m, k, v) == [x \in DOMAIN m \cup {k} |-> IF x = k THEN v ELSE m[x]]

\* The filter with >= for > in the value condition.
AcceptNonNegative(lset, meta, val, re) ==
  LET containerName == Get(lset, "name")
  IN /\ ~HasPrefix(Chars(containerName), Chars("libops-"))
     /\ meta.Metric # "container_tasks_state"
     /\ val >= 0
     /\ containerName # "cap"
     /\ MatchLabels(re, lset)

\* The five conditions of the filter, on what the loop has at hand.
Accept(lset, meta, val, re) ==
  LET containerName == Get(lset, "name")
      isLibopsContainer == HasPrefix(Chars(containerName), Chars("libops-"))
      isTasksState == meta.Metric = "container_tasks_state"
      isPositiveValue == val > 0
      isCapContainer == containerName = "cap"
      matchesRegex == MatchLabels(re, lset)
  IN ~isLibopsContainer /\ ~isTasksState /\ isPositiveValue /\ ~isCapContainer
     /\ matchesRegex

\* The loop body without the write to the registry.
ProcessSeriesNoRegister(st, e, i, t, re) ==
  LET ts == IF e.hasTs THEN e.ts ELSE t
      lset == Metric(e)
      ref == Hash(lset)
      accepted == Accept(lset, st.currMeta, e.val, re)
  IN [st EXCEPT
        !.metadata = MapPut(st.metadata, st.currMeta.Metric, st.currMeta),
        !.batch = IF accepted THEN Append(@, [Ref |-> ref, V |-> e.val, T |-> ts]) ELSE @,
        !.batchSrc = IF accepted THEN Append(@, i) ELSE @]

\* The loop body with the write to the metadata index moved into the
\* branch of an accepted sample.
ProcessSeriesMetaOnAccept(st, e, i, t, re) ==
  LET ts == IF e.hasTs THEN e.ts ELSE t
      lset == Metric(e)
      ref == Hash(lset)
      accepted == Accept(lset, st.currMeta, e.val, re)
  IN [st EXCEPT
        !.metadata = IF accepted THEN MapPut(@, st.currMeta.Metric, st.currMeta) ELSE @,
        !.labelsByRef = MapPut(st.labelsByRef, ref, lset),
        !.batch = IF accepted THEN Append(@, [Ref |-> ref, V |-> e.val, T |-> ts]) ELSE @,
        !.batchSrc = IF accepted THEN Append(@, i) ELSE @]

\* The loop body for a series entry e, decoded as entry number i, with t
\* the wall clock read in this iteration.  st holds the loop's variables
\* and the registry.
ProcessSeries(st, e, i, t, re) ==
  LET ts == IF e.hasTs THEN e.ts ELSE t
      lset == Metric(e)
      ref == Hash(lset)
      accepted == Accept(lset, st.currMeta, e.val, re)
  IN [st EXCEPT
        !.metadata = MapPut(st.metadata, st.currMeta.Metric, st.currMeta),
        !.labelsByRef = MapPut(st.labelsByRef, ref, lset),
        !.batch = IF accepted THEN Append(@, [Ref |-> ref, V |-> e.val, T |-> ts]) ELSE @,
        !.batchSrc = IF accepted THEN Append(@, i) ELSE @]

\* One iteration of the loop on a decoded entry.
ProcessEntry(st, e, i, t, re) ==
  CASE e.kind = "type" -> [st EXCEPT !.currMeta.Type = e.text]
    [] e.kind = "help" -> [st EXCEPT !.currMeta.Metric = e.metric, !.currMeta.Help = e.text]
    [] e.kind \in {"unit", "comment", "histogram"} -> st
    [] OTHER -> ProcessSeries(st, e, i, t, re)

\* The loop's variables and the registry when the loop is entered.
LoopStart ==
  [currMeta |-> ZeroMeta, batch |-> << >>, metadata |-> << >>,
   labelsByRef |-> << >>, batchSrc |-> << >>]

\* -------------------------------------------------------------------- state

VARIABLES
  FilterRegex,   \* Cfg.FilterRegex, the compiled pattern
  labelsByRef,   \* Scraper.labelsByRef, the series registry
  ctxDone,       \* whether ctx has been cancelled
  tickerC,       \* whether a tick waits in ticker.C
  sched,         \* "Idle" until Run is called, "Running", "Stopped" once Run returned
  pc,            \* where the goroutine calling Run or ProcessBody stands
  cycles,        \* ticks taken by the select of Run
  ticks,         \* ticks the ticker has sent
  now,           \* the wall clock, as last read
  body,          \* bodyBytes, as the sequence of entries it decodes to
  pos,           \* entries the parser has handed out
  currMeta,      \* ProcessBody's currMeta
  batch,         \* ProcessBody's batch
  metadata,      \* ProcessBody's metadata
  batchSrc,      \* history: for each element of batch, the entry that produced it
  outcome,       \* history: how the cycle in hand has gone
  steps,         \* history: the steps the cycle in hand has run
  exports,       \* history: the calls of exporter.Export
  cancelledIn,   \* history: the cycle in flight when ctx was cancelled, 0 when none was
  cancelledAtStart, \* history: whether ctx was cancelled when Run was called
  env,           \* the environment variables LoadFromEnv reads
  fetchedAt,     \* history: the wall clock when the payload in hand was fetched, 0 before
  unsent,        \* whether samples handed to Export wait in the exporter's queue
  registryReads, \* history: the calls of GetLabelsByRef, by task and by where Run stood
  metaHeap,      \* the maps ProcessBody has made for its metadata, in the order made
  metaRef        \* which of them ProcessBody's metadata refers to, 0 for none

vars ==
  << FilterRegex, labelsByRef, ctxDone, tickerC, sched, pc, cycles, ticks, now, body, pos,
     currMeta, batch, metadata, batchSrc, outcome, steps, exports,
     cancelledIn,
     cancelledAtStart,
     env,
     fetchedAt,
     unsent,
     registryReads,
     metaHeap,
     metaRef >>

schedVars == << ctxDone, tickerC, sched, cycles, ticks >>

loopVars == << currMeta, batch, metadata, batchSrc >>

\* The wall clock when the process starts.
StartTime == 1700000000

\* What a read of the wall clock may return.
ClockReads == {t \in {now, now + 1} : t <= StartTime + MaxClock}

\* The closure scrapeAndExport hands to Export, over the map ref refers
\* to: the map's entry for metric and whether it has one.
MetadataFunc(ref, metric) ==
  LET index == IF ref = 0 THEN << >> ELSE metaHeap[ref]
  IN IF metric \in DOMAIN index THEN [m |-> index[metric], ok |-> TRUE]
     ELSE [m |-> ZeroMeta, ok |-> FALSE]

\* Scraper.GetLabelsByRef(ref); a map miss is the empty label set.
GetLabelsByRef(ref) ==
  IF ref \in DOMAIN labelsByRef THEN labelsByRef[ref] ELSE EmptyLabels

\* The payloads the endpoint serves to the scheduler.
SchedBodies ==
  { << >>,
    << Help("container_cpu", "Cumulative cpu time consumed in seconds."),
       Type("container_cpu", "counter"),
       Series("container_cpu", <<Label("id", "/c1"), Label("name", "my-app")>>, 50000000) >>,
    << Series("container_cpu", <<Label("name", "cap")>>, 1000000000),
       SeriesNoTs("container_cpu", <<Label("name", "my-app"), Label("id", "/c1")>>, 1),
       Invalid >>,
    << Help("container_tasks_state", "The state of the container's tasks."),
       Series("container_tasks_state", <<Label("name", "my-app")>>, 10000000),
       SeriesNoTs("container_cpu", <<Label("name", "my-app"), Label("id", "/c1")>>, 1) >> }

\* The state of a process that has run no cycle.
Fresh ==
  /\ labelsByRef = << >>
  /\ ctxDone = FALSE
  /\ tickerC = FALSE
  /\ sched = "Idle"
  /\ cycles = 0
  /\ ticks = 0
  /\ now = StartTime
  /\ pos = 0
  /\ currMeta = ZeroMeta
  /\ batch = << >>
  /\ metadata = << >>
  /\ batchSrc = << >>
  /\ outcome = "none"
  /\ steps = << >>
  /\ exports = << >>
  /\ cancelledIn = 0
  /\ cancelledAtStart = FALSE
  /\ fetchedAt = 0
  /\ unsent = FALSE
  /\ registryReads = {}
  /\ metaHeap = << >>
  /\ metaRef = 0

\* NewScraper / NewTestScraper, and no cycle in hand.
Constructed ==
  /\ FilterRegex \in Patterns
  /\ env = ValidEnv(FilterRegex)
  /\ Fresh

\* main: the scraper is constructed and Run is about to be called.
Init ==
  /\ Constructed
  /\ body = << >>
  /\ pc = "idle"

\* A test: ProcessBody is called on a constructed scraper with a payload.
InitBody ==
  /\ Constructed
  /\ body \in PayloadsUpTo(MaxEntries)
  /\ pc = "process"

\* ------------------------------------------------------------- ProcessBody

\* Where an error return of the cycle leads: back to the select of Run, or
\* to the test that called ProcessBody.
AfterError == IF sched = "Running" THEN "select" ELSE "pb_err"

\* textparse.New succeeds and the registry is kept as it is.
ParserNewKeepRegistry ==
  /\ pc = "process"
  /\ pc' = "loop"
  /\ pos' = 0
  /\ currMeta' = LoopStart.currMeta
  /\ batch' = LoopStart.batch
  /\ metadata' = LoopStart.metadata
  /\ metaHeap' = Append(metaHeap, LoopStart.metadata)
  /\ metaRef' = Len(metaHeap) + 1
  /\ batchSrc' = LoopStart.batchSrc
  /\ outcome' = "parsed"
  /\ steps' = Append(steps, "pipeline")
  /\ UNCHANGED << FilterRegex, labelsByRef, schedVars, now, body, exports, cancelledIn,
                  cancelledAtStart, env, fetchedAt, unsent, registryReads >>

\* textparse.New succeeds and metadata is the one map of the scraper,
\* emptied and used again by every call.
ParserNewReusesIndex ==
  /\ pc = "process"
  /\ pc' = "loop"
  /\ pos' = 0
  /\ currMeta' = LoopStart.currMeta
  /\ batch' = LoopStart.batch
  /\ metadata' = LoopStart.metadata
  /\ metaHeap' = IF metaHeap = << >> THEN << LoopStart.metadata >>
                 ELSE [metaHeap EXCEPT ![1] = LoopStart.metadata]
  /\ metaRef' = 1
  /\ batchSrc' = LoopStart.batchSrc
  /\ labelsByRef' = LoopStart.labelsByRef
  /\ outcome' = "parsed"
  /\ steps' = Append(steps, "pipeline")
  /\ UNCHANGED << FilterRegex, schedVars, now, body, exports, cancelledIn,
                  cancelledAtStart, env, fetchedAt, unsent, registryReads >>

\* textparse.New succeeds: the loop's variables are declared and the
\* registry is replaced by an empty map.
ParserNew ==
  /\ pc = "process"
  /\ pc' = "loop"
  /\ pos' = 0
  /\ currMeta' = LoopStart.currMeta
  /\ batch' = LoopStart.batch
  /\ metadata' = LoopStart.metadata
  /\ metaHeap' = Append(metaHeap, LoopStart.metadata)
  /\ metaRef' = Len(metaHeap) + 1
  /\ batchSrc' = LoopStart.batchSrc
  /\ labelsByRef' = LoopStart.labelsByRef
  /\ outcome' = "parsed"
  /\ steps' = Append(steps, "pipeline")
  /\ UNCHANGED << FilterRegex, schedVars, now, body, exports, cancelledIn,
                  cancelledAtStart, env, fetchedAt, unsent, registryReads >>

\* textparse.New fails and the error is dropped: the caller goes on with
\* the nil batch and the nil index.
ParserNewErrorDropped ==
  /\ pc = "process"
  /\ pc' = "pb_ret"
  /\ outcome' = "parser_error"
  /\ steps' = Append(steps, "pipeline")
  /\ UNCHANGED << FilterRegex, labelsByRef, schedVars, now, body, pos, loopVars, exports,
                  cancelledIn, cancelledAtStart, env, fetchedAt, unsent, registryReads,
                  metaHeap, metaRef >>

\* textparse.New fails: ProcessBody returns the error, scrapeAndExport
\* wraps and returns it, Run logs it.
ParserNewError ==
  /\ pc = "process"
  /\ pc' = AfterError
  /\ outcome' = "parser_error"
  /\ steps' = Append(steps, "pipeline")
  /\ UNCHANGED << FilterRegex, labelsByRef, schedVars, now, body, pos, loopVars, exports,
                  cancelledIn, cancelledAtStart, env, fetchedAt, unsent, registryReads,
                  metaHeap, metaRef >>

\* One turn of the loop on a decoded entry.
LoopEntry ==
  /\ pc = "loop"
  /\ NextEntry(body, pos).kind # "invalid"
  /\ LET e == NextEntry(body, pos)
         st == [currMeta |-> currMeta, batch |-> batch, metadata |-> metadata,
                labelsByRef |-> labelsByRef, batchSrc |-> batchSrc]
     IN \E t \in (IF e.kind = "series" THEN ClockReads ELSE {now}) :
          LET st2 == ProcessEntry(st, e, pos + 1, t, FilterRegex)
          IN /\ now' = t
             /\ currMeta' = st2.currMeta
             /\ batch' = st2.batch
             /\ metadata' = st2.metadata
             /\ metaHeap' = [metaHeap EXCEPT ![metaRef] = st2.metadata]
             /\ labelsByRef' = st2.labelsByRef
             /\ batchSrc' = st2.batchSrc
  /\ pos' = pos + 1
  /\ UNCHANGED << FilterRegex, schedVars, pc, body, outcome, steps, exports, cancelledIn,
                  cancelledAtStart, env, fetchedAt, unsent, registryReads, metaRef >>

\* The parser is at the end of the input or at a malformed line: the loop
\* is left and ProcessBody returns batch, metadata and no error.
LoopBreak ==
  /\ pc = "loop"
  /\ NextEntry(body, pos).kind = "invalid"
  /\ pc' = "pb_ret"
  /\ UNCHANGED << FilterRegex, labelsByRef, schedVars, now, body, pos, loopVars, outcome,
                  steps, exports, cancelledIn, cancelledAtStart, env, fetchedAt, unsent,
                  registryReads, metaHeap, metaRef >>

ProcessBody == ParserNew \/ ParserNewError \/ LoopEntry \/ LoopBreak

NextBody == ProcessBody

SpecBody == InitBody /\ [][NextBody]_vars

\* ------------------------------------------------------------------ main

\* A cycle is in flight: scrapeAndExport has been called and has not
\* returned.
InFlight == pc \in {"fetch", "process", "loop", "pb_ret"}

\* main's signal goroutine: a shutdown signal arrives and cancel() is called.
Cancel ==
  /\ ~ctxDone
  /\ ctxDone' = TRUE
  /\ cancelledIn' = IF InFlight THEN cycles ELSE 0
  /\ UNCHANGED << FilterRegex, labelsByRef, tickerC, sched, pc, cycles, ticks, now, body,
                  pos, loopVars, outcome, steps, exports, cancelledAtStart, env, fetchedAt,
                  unsent, registryReads, metaHeap, metaRef >>

\* ------------------------------------------------------------------- Run

\* Run is called with a ticker whose first tick is sent at once.
RunStartFirstTickAtOnce ==
  /\ pc = "idle"
  /\ pc' = "select"
  /\ sched' = "Running"
  /\ cancelledAtStart' = ctxDone
  /\ tickerC' = TRUE
  /\ ticks' = ticks + 1
  /\ UNCHANGED << FilterRegex, labelsByRef, ctxDone, cycles, now, body, pos, loopVars,
                  outcome, steps, exports, cancelledIn, env, fetchedAt, unsent,
                  registryReads, metaHeap, metaRef >>

\* Run is called: the exporter's goroutine is started, the ticker is made
\* and the loop reaches its select.
RunStart ==
  /\ pc = "idle"
  /\ pc' = "select"
  /\ sched' = "Running"
  /\ cancelledAtStart' = ctxDone
  /\ UNCHANGED << FilterRegex, labelsByRef, ctxDone, tickerC, cycles, ticks, now, body,
                  pos, loopVars, outcome, steps, exports, cancelledIn, env, fetchedAt,
                  unsent, registryReads, metaHeap, metaRef >>

\* The scrape interval has passed: the ticker sends a tick, which is
\* dropped when one already waits in the channel.  An interval passes
\* while Run is blocked in its select or busy with a cycle, not between
\* its reaching the select and the select's choice.
TickerFire ==
  /\ sched = "Running"
  /\ pc \in {"wait", "fetch", "process", "loop", "pb_ret"}
  /\ ticks < MaxCycles
  /\ ticks' = ticks + 1
  /\ tickerC' = TRUE
  /\ now' \in ClockReads
  /\ UNCHANGED << FilterRegex, labelsByRef, ctxDone, sched, pc, cycles, body, pos,
                  loopVars, outcome, steps, exports, cancelledIn, cancelledAtStart, env,
                  fetchedAt, unsent, registryReads, metaHeap, metaRef >>

\* The select finds neither channel ready: Run blocks in it.
SelectBlock ==
  /\ pc = "select"
  /\ ~ctxDone
  /\ ~tickerC
  /\ pc' = "wait"
  /\ UNCHANGED << FilterRegex, labelsByRef, schedVars, now, body, pos, loopVars, outcome,
                  steps, exports, cancelledIn, cancelledAtStart, env, fetchedAt, unsent,
                  registryReads, metaHeap, metaRef >>

\* ctx.Done() is taken wherever Run stands, a cycle in flight included.
SelectDoneAnywhere ==
  /\ sched = "Running"
  /\ ctxDone
  /\ pc' = "stopped"
  /\ sched' = "Stopped"
  /\ UNCHANGED << FilterRegex, labelsByRef, ctxDone, tickerC, cycles, ticks, now, body,
                  pos, loopVars, outcome, steps, exports, cancelledIn, cancelledAtStart,
                  env, fetchedAt, unsent, registryReads, metaHeap, metaRef >>

\* ctx.Done() is taken and the select is left with a break: the loop goes
\* on.
SelectDoneBreak ==
  /\ pc \in {"select", "wait"}
  /\ ctxDone
  /\ pc' = "select"
  /\ UNCHANGED << FilterRegex, labelsByRef, schedVars, now, body, pos, loopVars, outcome,
                  steps, exports, cancelledIn, cancelledAtStart, env, fetchedAt, unsent,
                  registryReads, metaHeap, metaRef >>

\* The select takes ctx.Done(): Run logs and returns.
SelectDone ==
  /\ pc \in {"select", "wait"}
  /\ ctxDone
  /\ pc' = "stopped"
  /\ sched' = "Stopped"
  /\ UNCHANGED << FilterRegex, labelsByRef, ctxDone, tickerC, cycles, ticks, now, body,
                  pos, loopVars, outcome, steps, exports, cancelledIn, cancelledAtStart,
                  env, fetchedAt, unsent, registryReads, metaHeap, metaRef >>

\* The select takes the tick: scrapeAndExport is called.  With both
\* channels ready the select takes either.
SelectTick ==
  /\ pc \in {"select", "wait"}
  /\ tickerC
  /\ tickerC' = FALSE
  /\ pc' = "fetch"
  /\ cycles' = cycles + 1
  /\ body' = << >>
  /\ pos' = 0
  /\ currMeta' = ZeroMeta
  /\ batch' = << >>
  /\ metadata' = << >>
  /\ batchSrc' = << >>
  /\ outcome' = "none"
  /\ steps' = << >>
  /\ fetchedAt' = 0
  /\ metaRef' = 0
  /\ UNCHANGED << FilterRegex, labelsByRef, ctxDone, sched, ticks, now, exports,
                  cancelledIn, cancelledAtStart, env, unsent, registryReads, metaHeap >>

\* ---------------------------------------------------------- scrapeAndExport

\* The ways the fetch ends without a body: client.Get fails, the status
\* is not 200, io.ReadAll fails.
FetchErrors == {"get_error", "status_not_ok", "read_error"}

\* The fetch fails and Run returns on the error.
FetchFailStops ==
  /\ pc = "fetch"
  /\ \E err \in FetchErrors : outcome' = err
  /\ pc' = "stopped"
  /\ sched' = "Stopped"
  /\ steps' = Append(steps, "fetch")
  /\ UNCHANGED << FilterRegex, labelsByRef, ctxDone, tickerC, cycles, ticks, now, body,
                  pos, loopVars, exports, cancelledIn, cancelledAtStart, env, fetchedAt,
                  unsent, registryReads, metaHeap, metaRef >>

\* The fetch fails: scrapeAndExport returns the error, Run logs it.
FetchFail ==
  /\ pc = "fetch"
  /\ \E err \in FetchErrors : outcome' = err
  /\ pc' = "select"
  /\ steps' = Append(steps, "fetch")
  /\ UNCHANGED << FilterRegex, labelsByRef, schedVars, now, body, pos, loopVars, exports,
                  cancelledIn, cancelledAtStart, env, fetchedAt, unsent, registryReads,
                  metaHeap, metaRef >>

\* The fetch succeeds with status 200 and the body is read in full;
\* ProcessBody is called with it.
FetchOk ==
  /\ pc = "fetch"
  /\ body' \in SchedBodies
  /\ fetchedAt' = now
  /\ pc' = "process"
  /\ outcome' = "fetched"
  /\ steps' = Append(steps, "fetch")
  /\ UNCHANGED << FilterRegex, labelsByRef, schedVars, now, pos, loopVars, exports,
                  cancelledIn, cancelledAtStart, env, unsent, registryReads, metaHeap,
                  metaRef >>

\* ProcessBody has returned without error: exporter.Export is called with
\* a closure over metadata and with batch, and scrapeAndExport returns nil.
\* Export resolves the labels of each sample through the callback set by
\* SetLabelsByIDFunc and queues the samples for the exporter's task.
Export ==
  /\ pc = "pb_ret"
  /\ sched = "Running"
  /\ exports' = Append(exports, [cycle |-> cycles, body |-> body, batch |-> batch,
                                 metadata |-> metadata, metaRef |-> metaRef,
                                 lsets |-> [k \in 1..Len(batch) |->
                                              GetLabelsByRef(batch[k].Ref)]])
  /\ registryReads' = IF batch = << >> THEN registryReads
                      ELSE registryReads \cup {[task |-> "cycle", at |-> pc]}
  /\ unsent' = (unsent \/ batch # << >>)
  /\ steps' = Append(steps, "export")
  /\ pc' = "select"
  /\ UNCHANGED << FilterRegex, labelsByRef, schedVars, now, body, pos, loopVars, outcome,
                  cancelledIn, cancelledAtStart, env, fetchedAt, metaHeap, metaRef >>

\* ProcessBody is at work on the registry and the index.
InProcessBody == pc \in {"process", "loop"}

\* The exporter's task sends and resolves the labels of what it sends
\* through the callback at that time.
ExporterSendResolvesLabels ==
  /\ sched = "Running"
  /\ unsent
  /\ unsent' = FALSE
  /\ registryReads' = registryReads \cup {[task |-> "exporter", at |-> pc]}
  /\ UNCHANGED << FilterRegex, labelsByRef, schedVars, pc, now, body, pos, loopVars,
                  outcome, steps, exports, cancelledIn, cancelledAtStart, env, fetchedAt,
                  metaHeap, metaRef >>

\* The goroutine Run starts for exporter.Run: it sends what Export has
\* queued, whatever the scheduler loop is doing.
ExporterSend ==
  /\ sched = "Running"
  /\ unsent
  /\ unsent' = FALSE
  /\ UNCHANGED << FilterRegex, labelsByRef, schedVars, pc, now, body, pos, loopVars,
                  outcome, steps, exports, cancelledIn, cancelledAtStart, env, fetchedAt,
                  registryReads, metaHeap, metaRef >>

scrapeAndExport == FetchFail \/ FetchOk \/ ProcessBody \/ Export

Run == RunStart \/ TickerFire \/ SelectBlock \/ SelectDone \/ SelectTick \/ scrapeAndExport

Next == Cancel \/ Run \/ ExporterSend

Spec == Init /\ [][Next]_vars

\* main is entered: nothing is loaded or constructed yet.
InitMain ==
  /\ env \in Envs
  /\ FilterRegex = NoRegex
  /\ Fresh
  /\ body = << >>
  /\ pc = "main"

\* LoadFromEnv returns an error: main logs it and exits with status 1.
LoadConfigFail ==
  /\ pc = "main"
  /\ LoadFromEnv(env).err # ""
  /\ pc' = "exited"
  /\ UNCHANGED << FilterRegex, labelsByRef, schedVars, now, body, pos, loopVars, outcome,
                  steps, exports, cancelledIn, cancelledAtStart, env, fetchedAt, unsent,
                  registryReads, metaHeap, metaRef >>

\* LoadFromEnv returns the Config: main goes on to NewScraper.
LoadConfigOk ==
  /\ pc = "main"
  /\ LoadFromEnv(env).err = ""
  /\ FilterRegex' = LoadFromEnv(env).FilterRegex
  /\ pc' = "new"
  /\ UNCHANGED << labelsByRef, schedVars, now, body, pos, loopVars, outcome, steps,
                  exports, cancelledIn, cancelledAtStart, env, fetchedAt, unsent,
                  registryReads, metaHeap, metaRef >>

\* NewScraper fails in export.New or in ApplyConfig: main logs the error
\* and exits with status 1.
NewScraperFail ==
  /\ pc = "new"
  /\ pc' = "exited"
  /\ UNCHANGED << FilterRegex, labelsByRef, schedVars, now, body, pos, loopVars, outcome,
                  steps, exports, cancelledIn, cancelledAtStart, env, fetchedAt, unsent,
                  registryReads, metaHeap, metaRef >>

\* NewScraper returns the scraper, with an empty registry; main makes ctx
\* and the signal goroutine and is about to call Run.
NewScraper ==
  /\ pc = "new"
  /\ labelsByRef' = << >>
  /\ pc' = "idle"
  /\ UNCHANGED << FilterRegex, schedVars, now, body, pos, loopVars, outcome, steps,
                  exports, cancelledIn, cancelledAtStart, env, fetchedAt, unsent,
                  registryReads, metaHeap, metaRef >>

\* main has made ctx: a signal can cancel it and Run can be called.
Started == pc \notin {"main", "new", "exited"}

NextMain ==
  \/ LoadConfigFail
  \/ LoadConfigOk
  \/ NewScraperFail
  \/ NewScraper
  \/ (Started /\ Next)

SpecMain == InitMain /\ [][NextMain]_vars

\* main with SERVICE_PATTERN unset: the scraper is constructed and Run is
\* about to be called.
InitDefault ==
  /\ Init
  /\ FilterRegex = ".*"

\* The scheduling the code relies on: main calls Run once the scraper is
\* constructed; every call a cycle makes returns, the fetch within the
\* client's timeout; and a select with several ready cases picks one of
\* them at random, so that a ready ctx.Done() is not passed over for ever.
FairSpec ==
  /\ InitDefault
  /\ [][Next]_vars
  /\ WF_vars(RunStart)
  /\ WF_vars(scrapeAndExport)
  /\ SF_vars(SelectDone)

\* ------------------------------------------------------------------ claims

Range(f) == {f[x] : x \in DOMAIN f}

\* ProcessBody has returned its batch and metadata index without error.
Returned == pc = "pb_ret"

IsSeries(e) == e.kind = "series"

\* The four conditions of the filter that are about a series' own labels
\* and value, each judged on the entry as the payload gives it.
NameIsLibops(e) == HasPrefix(Chars(Get(Metric(e), "name")), Chars("libops-"))

NameIsCap(e) == Get(Metric(e), "name") = "cap"

ValueIsPositive(e) == e.val > 0

PatternMatches(e) == MatchLabels(FilterRegex, Metric(e))

\* C1: no sample in the batch comes from a series whose name label begins
\* with libops-, whose name label is cap, whose value is not above zero or
\* whose rendered label set the pattern does not match; and every decoded
\* series that breaks one of these four rules is left out.
C1_FilterRules ==
  Returned =>
    /\ \A j \in 1..Len(batch) :
         LET e == body[batchSrc[j]]
         IN /\ ~NameIsLibops(e)
            /\ ~NameIsCap(e)
            /\ batch[j].V > 0 /\ ValueIsPositive(e)
            /\ PatternMatches(e)
    /\ \A i \in 1..pos :
         (IsSeries(body[i]) /\ (NameIsLibops(body[i]) \/ NameIsCap(body[i])
                                 \/ ~ValueIsPositive(body[i]) \/ ~PatternMatches(body[i])))
           => i \notin Range(batchSrc)

\* A returned batch with a sample in it, from a payload with a series at
\* value 0 that passes every other rule and is left out.
C1_Witness ==
  /\ Returned
  /\ Len(batch) >= 1
  /\ \E i \in 1..pos :
       /\ IsSeries(body[i]) /\ body[i].val = 0
       /\ ~NameIsLibops(body[i]) /\ ~NameIsCap(body[i]) /\ PatternMatches(body[i])
       /\ currMeta.Metric # "container_tasks_state"
       /\ i \notin Range(batchSrc)

\* C2: no sample in the returned batch comes from a series whose own
\* metric name is container_tasks_state, whatever HELP and TYPE entries
\* precede it.
C2_TasksStateExcluded ==
  Returned =>
    \A j \in 1..Len(batch) : body[batchSrc[j]].metric # "container_tasks_state"

\* The five rules judged on the series' own metric name, labels and value.
AcceptOwn(e) ==
  /\ ~NameIsLibops(e)
  /\ e.metric # "container_tasks_state"
  /\ ValueIsPositive(e)
  /\ ~NameIsCap(e)
  /\ PatternMatches(e)

RECURSIVE AcceptedOwn(_, _)
\* The decoded series among the first n entries that pass AcceptOwn, in
\* payload order.
AcceptedOwn(payload, n) ==
  IF n = 0 THEN << >>
  ELSE AcceptedOwn(payload, n - 1)
       \o (IF IsSeries(payload[n]) /\ AcceptOwn(payload[n]) THEN <<n>> ELSE << >>)

\* C3: the returned batch has one entry per decoded series that passes the
\* five rules judged on the series itself, in payload order.
C3_BatchIsAcceptedInOrder ==
  Returned =>
    /\ batchSrc = AcceptedOwn(body, pos)
    /\ \A j \in 1..Len(batch) :
         /\ batch[j].Ref = Hash(Metric(body[batchSrc[j]]))
         /\ batch[j].V = body[batchSrc[j]].val

\* Two series with the same metric name and the same label pairs.
SameContent(e1, e2) ==
  /\ e1.metric = e2.metric
  /\ Range(e1.labels) = Range(e2.labels)

\* C4: after the return every batch entry's reference resolves to the
\* label set of the series that produced it, which is not empty and
\* carries the series' name label; and batch entries of series with the
\* same content carry the same reference.
C4_ReferencesResolve ==
  Returned =>
    /\ \A j \in 1..Len(batch) :
         LET e == body[batchSrc[j]]
             got == GetLabelsByRef(batch[j].Ref)
         IN /\ got = Metric(e)
            /\ got # EmptyLabels
            /\ \A k \in 1..Len(e.labels) : Get(got, e.labels[k].name) = e.labels[k].value
            /\ Get(got, "__name__") = e.metric
    /\ \A j1, j2 \in 1..Len(batch) :
         SameContent(body[batchSrc[j1]], body[batchSrc[j2]]) <=> batch[j1].Ref = batch[j2].Ref

\* A returned batch with entries of two series that give the same label
\* pairs in different order, and of a third with other labels.
C4_Witness ==
  /\ Returned
  /\ \E j1, j2 \in 1..Len(batch) :
       /\ body[batchSrc[j1]].labels # body[batchSrc[j2]].labels
       /\ SameContent(body[batchSrc[j1]], body[batchSrc[j2]])
       /\ Get(GetLabelsByRef(batch[j1].Ref), "name") = "my-app"
  /\ \E i \in 1..pos : IsSeries(body[i]) /\ i \notin Range(batchSrc)

Max(S) == CHOOSE x \in S : \A y \in S : y <= x

Min(S) == CHOOSE x \in S : \A y \in S : x <= y

\* The references the first n entries of a payload register.
RefsOf(payload, n) == {Hash(Metric(payload[i])) : i \in {k \in 1..n : IsSeries(payload[k])}}

\* C5 as claimed: when a cycle that has begun is over, be it one that
\* failed at the fetch or at the parser's initialization, the registry
\* resolves only references that the cycle's own payload has registered.
C5_RegistryEmptyAtCycleStart ==
  (cycles >= 1 /\ pc \in {"select", "wait", "stopped"}) =>
    DOMAIN labelsByRef \subseteq RefsOf(body, pos)

\* C5 as the code has it: from the point where ProcessBody has
\* initialized the parser for the cycle's payload to the end of that
\* cycle, the registry resolves only references that this payload has
\* registered.
C5_RegistryReplacedByProcessBody ==
  (cycles >= 1 /\ outcome = "parsed") =>
    /\ DOMAIN labelsByRef = RefsOf(body, pos)
    /\ \A r \in DOMAIN labelsByRef : GetLabelsByRef(r) # EmptyLabels

\* The second cycle's ProcessBody has returned, and a reference that the
\* first cycle exported resolves no more.
C5_Witness ==
  /\ Returned
  /\ cycles = 2
  /\ Len(exports) = 1
  /\ \E j \in 1..Len(exports[1].batch) :
       GetLabelsByRef(exports[1].batch[j].Ref) = EmptyLabels

\* The text of the last entry of the given kind for metric m among the
\* first n entries, "" when there is none.
LastText(kind, m, n) ==
  LET at == {i \in 1..n : body[i].kind = kind /\ body[i].metric = m}
  IN IF at = {} THEN "" ELSE body[Max(at)].text

\* The last decoded series of metric m; the last decoded entry when m has
\* no series.
LastSeriesOf(m) ==
  LET at == {i \in 1..pos : IsSeries(body[i]) /\ body[i].metric = m}
  IN IF at = {} THEN pos ELSE Max(at)

\* C6: every entry of the returned metadata index carries the help text of
\* the last HELP entry and the type of the last TYPE entry that the
\* payload gives for the entry's own metric name, up to that metric's last
\* series.
C6_MetadataLastSeenWins ==
  Returned =>
    \A m \in DOMAIN metadata :
      /\ metadata[m].Metric = m
      /\ metadata[m].Help = LastText("help", m, LastSeriesOf(m))
      /\ metadata[m].Type = LastText("type", m, LastSeriesOf(m))

\* The last HELP entry before entry i names the metric of entry i.
OwnHelp(i) ==
  LET hs == {h \in 1..(i - 1) : body[h].kind = "help"}
  IN hs # {} /\ body[Max(hs)].metric = body[i].metric

\* C7: a decoded series that follows the HELP entry of its metric and is
\* rejected by the filter has no entry in the returned batch, and the
\* returned metadata index has the entry of its metric, with that
\* metric's help text.
C7_MetadataRecordedForRejected ==
  Returned =>
    \A i \in 1..pos :
      (IsSeries(body[i]) /\ OwnHelp(i) /\ ~AcceptOwn(body[i])) =>
        /\ i \notin Range(batchSrc)
        /\ body[i].metric \in DOMAIN metadata
        /\ metadata[body[i].metric].Metric = body[i].metric
        /\ metadata[body[i].metric].Help = LastText("help", body[i].metric, i)

\* HELP, TYPE counter and a series of the container named cap at value
\* 100: the batch is empty and the index has the metric's entry.
C7_Witness ==
  /\ Returned
  /\ batch = << >>
  /\ \E i \in 1..pos :
       /\ IsSeries(body[i]) /\ OwnHelp(i) /\ NameIsCap(body[i])
       /\ body[i].val = 1000000000
       /\ metadata[body[i].metric].Type = "counter"

\* The entries of a payload before its first malformed line.
ValidPrefix(payload) ==
  LET bad == {i \in 1..Len(payload) : payload[i].kind = "invalid"}
  IN IF bad = {} THEN payload ELSE SubSeq(payload, 1, Min(bad) - 1)

\* The wall clock as entry i read it, as far as the batch shows it.
ClockSeen(i) ==
  IF \E j \in 1..Len(batchSrc) : batchSrc[j] = i
  THEN batch[CHOOSE j \in 1..Len(batchSrc) : batchSrc[j] = i].T
  ELSE 0

RECURSIVE Fold(_, _, _)
\* The loop body applied to all of entries in turn, from entry i on.
Fold(st, entries, i) ==
  IF i > Len(entries) THEN st
  ELSE Fold(ProcessEntry(st, entries[i], i, ClockSeen(i), FilterRegex), entries, i + 1)

\* Batch, registry and metadata index are what the loop makes of entries
\* alone, from an empty registry.
ResultOf(entries) ==
  LET want == Fold(LoopStart, entries, 1)
  IN /\ batch = want.batch
     /\ metadata = want.metadata
     /\ labelsByRef = want.labelsByRef

\* C8: ProcessBody returns without error at the first malformed line, with
\* the batch, the registry and the metadata index that the entries before
\* that line alone produce; an error return happens before any entry is
\* decoded only.
C8_MalformedTruncates ==
  /\ Returned => (pos = Len(ValidPrefix(body)) /\ ResultOf(ValidPrefix(body)))
  /\ pc = "pb_err" => (pos = 0 /\ batch = << >> /\ labelsByRef = << >>)

\* A payload with a sample, then a malformed line, then a series that
\* the filter would accept.
C8_Witness ==
  /\ Returned
  /\ pos >= 1
  /\ Len(batch) >= 1
  /\ Len(body) >= pos + 2
  /\ body[pos + 1].kind = "invalid"
  /\ IsSeries(body[pos + 2]) /\ Accept(Metric(body[pos + 2]), currMeta, body[pos + 2].val, FilterRegex)

IsPrefix(a, b) == Len(a) <= Len(b) /\ a = SubSeq(b, 1, Len(a))

\* The calls of Export made by the cycle in hand.
ExportsOfCycle == {j \in 1..Len(exports) : exports[j].cycle = cycles}

CycleErrors == FetchErrors \cup {"parser_error"}

\* C9: a cycle runs fetch, pipeline and export in this order; Export is
\* called in a cycle if and only if the fetch succeeded and the parser
\* was initialized, then once, after ProcessBody has returned, with that
\* cycle's batch and metadata index; a failed cycle calls it not at all.
C9_ExportIffPipelineRan ==
  /\ IsPrefix(steps, <<"fetch", "pipeline", "export">>)
  /\ \A j \in 1..Len(exports) :
       /\ exports[j].cycle \in 1..cycles
       /\ j > 1 => exports[j - 1].cycle < exports[j].cycle
  /\ pc \in {"fetch", "process", "loop", "pb_ret"} => ExportsOfCycle = {}
  /\ (pc \in {"select", "wait", "stopped"} /\ cycles >= 1) =>
       /\ ExportsOfCycle # {} <=> outcome = "parsed"
       /\ outcome \in CycleErrors => "export" \notin Range(steps)
       /\ outcome = "parsed" =>
            /\ steps = <<"fetch", "pipeline", "export">>
            /\ exports[Len(exports)].batch = batch
            /\ exports[Len(exports)].metadata = metadata

\* The first cycle failed and exported nothing, the second has handed a
\* batch with a sample to the exporter.
C9_Witness ==
  /\ pc = "select"
  /\ cycles = 2
  /\ Len(exports) = 1
  /\ exports[1].cycle = 2
  /\ Len(exports[1].batch) >= 1
  /\ DOMAIN exports[1].metadata # {}

\* The step in which the cycle in hand fails.
CycleFails == outcome \notin CycleErrors /\ outcome' \in CycleErrors

\* C10: the step in which a cycle fails leaves the scheduler Running at
\* its select, without a second fetch and without an export; the tick
\* taken next starts a cycle from the fetch; and what ProcessBody returns
\* in a cycle is what its payload alone produces, whatever went before.
C10_FailureDoesNotStop ==
  /\ [][CycleFails =>
          /\ sched' = "Running"
          /\ pc' = "select"
          /\ exports' = exports
          /\ steps' \in {<<"fetch">>, <<"fetch", "pipeline">>}]_vars
  /\ [][(pc \in {"select", "wait"} /\ outcome \in CycleErrors /\ cycles' # cycles) =>
          (pc' = "fetch" /\ cycles' = cycles + 1 /\ sched' = "Running")]_vars
  /\ [](Returned => (pos = Len(ValidPrefix(body)) /\ ResultOf(ValidPrefix(body))))

\* The first cycle failed, and ProcessBody of the second has returned a
\* batch with a sample.
C10_Witness ==
  /\ Returned
  /\ cycles = 2
  /\ exports = << >>
  /\ Len(batch) >= 1

\* The scheduler is between cycles: at its select, or blocked in it.
AtTickBoundary == pc \in {"select", "wait"}

\* C11: no step taken while a cycle is in flight stops the scheduler; it
\* goes from Running to Stopped only by a step taken at a tick boundary
\* with ctx cancelled; a cycle in flight with ctx cancelled always has its
\* next step to take; and the cycle that was in flight when ctx was
\* cancelled, once over without error, has run fetch, pipeline and export.
C11_CancelNotObservedMidCycle ==
  /\ [][InFlight => (sched' = "Running" /\ pc' # "stopped")]_vars
  /\ [][(sched = "Running" /\ sched' = "Stopped") => (AtTickBoundary /\ ctxDone)]_vars
  /\ []((InFlight /\ ctxDone) => ENABLED scrapeAndExport)
  /\ []((cancelledIn >= 1 /\ cancelledIn = cycles /\ ~InFlight /\ outcome = "parsed") =>
          /\ steps = <<"fetch", "pipeline", "export">>
          /\ ExportsOfCycle # {})

\* ctx was cancelled while the first cycle was in flight; the cycle has run
\* to its export and Run has returned at the boundary after it.
C11_Witness ==
  /\ sched = "Stopped"
  /\ cancelledIn = 1
  /\ cycles = 1
  /\ steps = <<"fetch", "pipeline", "export">>
  /\ Len(exports) = 1
  /\ Len(exports[1].batch) >= 1

\* C12: when ctx was cancelled before Run was called, Run stands at its
\* select with no tick in the channel and no interval passed, the only
\* step it can take is the return on ctx.Done(), and once it has returned
\* no cycle has begun: no fetch, no pipeline, no export.
C12_CancelledBeforeStart ==
  cancelledAtStart =>
    /\ pc \in {"select", "stopped"}
    /\ pc = "select" =>
         /\ ENABLED SelectDone
         /\ ~ENABLED SelectTick
         /\ ~ENABLED SelectBlock
         /\ ~ENABLED TickerFire
    /\ pc = "stopped" => sched = "Stopped"
    /\ cycles = 0
    /\ steps = << >>
    /\ outcome = "none"
    /\ exports = << >>

\* Run was called with ctx cancelled and has returned.
C12_Witness ==
  /\ cancelledAtStart
  /\ sched = "Stopped"
  /\ cycles = 0

\* C13: the scheduler is Idle, Running or Stopped; it changes state only
\* from Idle to Running, when Run is called, and from Running to Stopped,
\* with ctx cancelled; in Stopped nothing of the scheduler or of a cycle
\* changes any more; and once ctx is cancelled the scheduler comes to
\* Stopped.
C13_Lifecycle ==
  /\ [](sched \in {"Idle", "Running", "Stopped"})
  /\ [][sched' # sched =>
          \/ sched = "Idle" /\ sched' = "Running" /\ pc = "idle"
          \/ sched = "Running" /\ sched' = "Stopped" /\ ctxDone]_vars
  /\ [][sched = "Stopped" =>
          /\ sched' = "Stopped"
          /\ UNCHANGED << pc, cycles, steps, outcome, exports, labelsByRef, env, fetchedAt, unsent,
                  registryReads, metaHeap, metaRef >>]_vars
  /\ (ctxDone ~> (sched = "Stopped"))

\* Two cycles have run and exported, then ctx was cancelled at a tick
\* boundary and Run has returned.
C13_Witness ==
  /\ sched = "Stopped"
  /\ ctxDone
  /\ cancelledIn = 0
  /\ cycles = 2
  /\ Len(exports) = 2

\* The configuration the claim calls an error: the pattern, when set, does
\* not compile, or one of project, location and cluster is empty.
ConfigError ==
  \/ env.SERVICE_PATTERN \notin {""} \cup Patterns
  \/ env.GCP_PROJECT = ""
  \/ env.GCP_ZONE = ""
  \/ env.GCP_INSTANCE_NAME = ""

\* C14: with such a configuration LoadFromEnv returns an error and the
\* process is in main or has exited, with no scraper constructed and the
\* scheduler never started; with any other LoadFromEnv returns no error;
\* and an unset pattern is loaded as the pattern that matches every label
\* set.
C14_ConfigErrorIsFatal ==
  /\ ConfigError =>
       /\ LoadFromEnv(env).err # ""
       /\ pc \in {"main", "exited"}
       /\ FilterRegex = NoRegex
       /\ sched = "Idle"
       /\ cycles = 0
       /\ exports = << >>
  /\ ~ConfigError => LoadFromEnv(env).err = ""
  /\ (env.SERVICE_PATTERN = "" /\ ~ConfigError) =>
       /\ LoadFromEnv(env).FilterRegex = ".*"
       /\ \A lset \in LabelSets : MatchLabels(LoadFromEnv(env).FilterRegex, lset)
       /\ pc \notin {"main", "exited"} => FilterRegex = ".*"

\* The process has exited on an environment that lacks the cluster only.
C14_Witness ==
  /\ pc = "exited"
  /\ env = EnvOf("p", "z", "", "")

\* C15: when ProcessBody has returned, its batch equals, references, values
\* and timestamps, the batch of every earlier cycle that processed the same
\* payload.
C15_SamePayloadSameBatch ==
  Returned =>
    \A j \in 1..Len(exports) : exports[j].body = body => exports[j].batch = batch

\* C16: when ProcessBody has returned, every element of the batch made from
\* a series with a timestamp has that timestamp, every element made from a
\* series without one has the time of the cycle's fetch, and the elements
\* made from series without one all have the same timestamp.
C16_DefaultIsFetchTime ==
  (Returned /\ sched = "Running") =>
    /\ \A k \in 1..Len(batch) :
         LET e == body[batchSrc[k]]
         IN batch[k].T = IF e.hasTs THEN e.ts ELSE fetchedAt
    /\ \A k, l \in 1..Len(batch) :
         (~body[batchSrc[k]].hasTs /\ ~body[batchSrc[l]].hasTs) => batch[k].T = batch[l].T

MetricNames == {"", "container_cpu", "container_tasks_state"}

\* C18: at every later time, the closure handed to Export in a cycle
\* answers every lookup as the index did when it was handed over.
C18_ClosureIsStable ==
  \A j \in 1..Len(exports) : \A metric \in MetricNames :
    LET handed == exports[j].metadata
    IN MetadataFunc(exports[j].metaRef, metric) =
         IF metric \in DOMAIN handed THEN [m |-> handed[metric], ok |-> TRUE]
         ELSE [m |-> ZeroMeta, ok |-> FALSE]

\* The first cycle has handed over an index with an entry; ProcessBody of
\* the second cycle has returned another index.
C18_Witness ==
  /\ Returned
  /\ cycles = 2
  /\ Len(exports) = 1
  /\ exports[1].cycle = 1
  /\ "container_cpu" \in DOMAIN exports[1].metadata
  /\ metadata # exports[1].metadata
  /\ DOMAIN metadata # {}

\* C19: no step taken with ctx cancelled and no cycle in flight begins a
\* cycle.
C19_NoCycleAfterCancel ==
  [][(ctxDone /\ ~InFlight) => cycles' = cycles]_vars

====
